---- MODULE Spec2Model ----
(***************************************************************************)
(* Raptor++: the ontology walker (ontology_walker.hpp), the rdf web parser *)
(* and term model it drives (rdf_parser.hpp) and the aggregate visitor    *)
(* (ontology_visitors.hpp).                                                *)
(*                                                                         *)
(* Strings are sequences of character codes, so that the conversion       *)
(* between unsigned_string (codes 0..255) and std::string (codes          *)
(* -128..127) is a computation and not the identity.                      *)
(***************************************************************************)
EXTENDS Integers, Sequences, FiniteSets, TLC

VARIABLES
  \* ontology_walker::operator()
  pc,            \* position in ontology_walker::operator()
  pred_,         \* the walker's admission predicate (fixed at construction)
  closed_list,   \* std::unordered_set<std::string>
  fringe,        \* std::queue<std::string>
  current_uri,   \* std::string
  triples,       \* std::list<rdf_triple> of the current iteration
  good_rdf,      \* bool
  new_end,       \* number of elements in [begin(triples), new_end)
  error,         \* the exception that left operator(), "none" if none
  \* observations of one walk call
  attempted,     \* URIs handed to the parser, in order
  discovered,    \* URIs in the order of their first push on the fringe
  visited,       \* first arguments of the func_ invocations, in order
  fetched,       \* what the parser wrote for the current iteration
  func_args,     \* arguments of the func_ invocation of the current iteration
  fetch_results, \* what each call of the parser came to, in the order of attempted
  pred_evals,    \* triples pred_ was called on in the current iteration, in order
  edges,         \* <<u, v>>: an admitted triple of u's document has the uri v as object
  walk_no,       \* number of the operator() call on this walker object
  prev_closed,   \* closed_list as the previous operator() call left it
  \* rdf_web_parser::operator()
  ppc,           \* position in rdf_web_parser::operator()
  raptor_events, \* what raptor will still deliver to the handlers
  r_uri_null,    \* raptor_new_uri returned NULL
  ptriples,      \* std::vector<rdf_triple> triples
  good_parse,    \* bool good_parse
  dest,          \* what was written through the output iterator
  presult,       \* the returned flag, or the exception thrown
  log_levels,    \* levels of the log messages raptor delivered, in order
  \* aggregate::operator()
  apc,           \* position in aggregate::operator()
  caller,        \* call_me<Iter> caller(str, first, last)
  fnext,         \* index of the next element of functions_ to call
  calls,         \* invocations of the component functions, in order
  thrower,       \* index of the component function that threw, 0 if none
  \* rdf_term, its predicates and term_cast
  tpc,           \* position in the use of one rdf_term
  raptor_term,         \* the raptor_term the rdf_term is made of
  term,          \* rdf_term
  probe,         \* what is_uri(term), is_literal(term), is_blank(term) returned
  cast           \* what term_cast<T>(term) came to

walker_vars == <<pc, pred_, closed_list, fringe, current_uri, triples, good_rdf,
                 new_end, error, attempted, discovered, visited, fetched,
                 func_args, fetch_results, pred_evals, edges, walk_no, prev_closed>>
parser_vars == <<ppc, raptor_events, r_uri_null, ptriples, good_parse, dest, presult,
                 log_levels>>
aggregate_vars == <<apc, caller, fnext, calls, thrower>>
term_vars == <<tpc, raptor_term, term, probe, cast>>
vars == <<walker_vars, parser_vars, aggregate_vars, term_vars>>

(***************************************************************************)
(* Bounds of the model.                                                    *)
(***************************************************************************)
\* Longest sequence of raptor callbacks (statements and log messages) of one parse.
MaxEvents == 2
\* Longest fringe of the walks that are explored.
MaxFringe == 2
\* Number of component functions of the aggregate.
NumFunctions == 3
\* Number of operator() calls made on one walker object.
MaxWalks == 2

(***************************************************************************)
(* Strings.                                                                *)
(***************************************************************************)
\* unsigned_string values used as URIs; the last one holds a code above 127.
UriA == <<65>>
UriB == <<66>>
UriC == <<67>>
UriD == <<200>>
UnsignedUris == {UriA, UriB, UriC, UriD}
\* URIs used in predicate position.
UriP == <<112>>
UriQ == <<113>>
LiteralText == <<120>>
BlankText == <<98>>

\* static_cast<char>(unsigned char)
SignedChar(c) == IF c >= 128 THEN c - 256 ELSE c

to_std_string(str) == [i \in 1..Len(str) |-> SignedChar(str[i])]

\* std::string values of the URIs.
StdUris == {to_std_string(u) : u \in UnsignedUris}
\* The URIs a walk is started on: one of the plain ones, and the one with the
\* code above 127.
StartUris == {to_std_string(UriA), to_std_string(UriD)}

(***************************************************************************)
(* Term model: boost::variant<rdf_uri, rdf_literal, rdf_blank>.            *)
(***************************************************************************)
\* raptor_term as raptor hands it over. type UNKNOWN is RAPTOR_TERM_TYPE_UNKNOWN.
RaptorUriTerm(u) == [type |-> "URI", string |-> u, datatype |-> <<>>]
RaptorLiteralTerm == [type |-> "LITERAL", string |-> LiteralText, datatype |-> <<>>]
RaptorBlankTerm == [type |-> "BLANK", string |-> BlankText, datatype |-> <<>>]
RaptorUnknownTerm == [type |-> "UNKNOWN", string |-> <<>>, datatype |-> <<>>]

rdf_uri(u) == [which |-> "rdf_uri", text |-> u, literal_uri |-> <<>>]
rdf_literal(lit) == [which |-> "rdf_literal", text |-> lit.string, literal_uri |-> lit.datatype]
rdf_blank(blnk) == [which |-> "rdf_blank", text |-> blnk.string, literal_uri |-> <<>>]
BadTerm == [which |-> "bad", text |-> <<>>, literal_uri |-> <<>>]

\* Mutant of is_literal: the visitor also answers true for an rdf_blank.
is_literal_or_blank(t) == t.which \in {"rdf_literal", "rdf_blank"}

is_uri(t) == t.which = "rdf_uri"
is_literal(t) == t.which = "rdf_literal"
is_blank(t) == t.which = "rdf_blank"

\* term_cast<rdf_uri>: the stored value, or "bad cast".
term_cast_uri(t) == IF is_uri(t) THEN [ok |-> TRUE, uri |-> t.text]
                    ELSE [ok |-> FALSE, uri |-> <<>>]

\* term_cast<rdf_literal>: the stored value() and uri(), or "bad cast".
term_cast_literal(t) ==
  IF is_literal(t) THEN [ok |-> TRUE, value |-> t.text, uri |-> t.literal_uri]
  ELSE [ok |-> FALSE, value |-> <<>>, uri |-> <<>>]

\* term_cast<rdf_blank>: the stored value(), or "bad cast".
term_cast_blank(t) == IF is_blank(t) THEN [ok |-> TRUE, value |-> t.text]
                      ELSE [ok |-> FALSE, value |-> <<>>]

\* make_rdf_term: [threw, term]
make_rdf_term(rterm) ==
  CASE rterm.type = "URI" -> [threw |-> FALSE, term |-> rdf_uri(rterm.string)]
    [] rterm.type = "LITERAL" -> [threw |-> FALSE, term |-> rdf_literal(rterm)]
    [] rterm.type = "BLANK" -> [threw |-> FALSE, term |-> rdf_blank(rterm)]
    [] OTHER -> [threw |-> TRUE, term |-> BadTerm]

rdf_triple(s, p, o) == [subject |-> s, predicate |-> p, object |-> o]

(***************************************************************************)
(* One rdf_term: made by make_rdf_term, asked for its variant, and cast.   *)
(***************************************************************************)
\* The raptor terms an rdf_term is made of. A NULL uri and an empty string
\* are both <<>>; some literals and blanks have the text of a URI.
RaptorTerms ==
  {RaptorUriTerm(u) : u \in UnsignedUris \cup {UriP, UriQ, <<>>}}
  \cup {[type |-> "LITERAL", string |-> str, datatype |-> dt] :
          str \in {LiteralText, UriA, <<>>}, dt \in {<<>>, UriA, UriB}}
  \cup {[type |-> "BLANK", string |-> str, datatype |-> <<>>] :
          str \in {BlankText, UriA, LiteralText, <<>>}}
  \cup {RaptorUnknownTerm}

NoProbe == [uri |-> FALSE, literal |-> FALSE, blank |-> FALSE]
NoCast == [to |-> "none", ok |-> FALSE, text |-> <<>>, literal_uri |-> <<>>]

TermInit ==
  /\ tpc = "idle"
  /\ raptor_term = RaptorUnknownTerm
  /\ term = BadTerm
  /\ probe = NoProbe
  /\ cast = NoCast

\* rdf_term term = make_rdf_term(raptor_term)
MakeTerm ==
  /\ tpc = "idle"
  /\ \E r \in RaptorTerms :
       /\ raptor_term' = r
       /\ term' = make_rdf_term(r).term
       /\ tpc' = IF make_rdf_term(r).threw THEN "threw" ELSE "made"
  /\ UNCHANGED <<probe, cast>>
  /\ UNCHANGED <<walker_vars, parser_vars, aggregate_vars>>

\* is_uri(term), is_literal(term), is_blank(term)
TermProbe ==
  /\ tpc = "made"
  /\ probe' = [uri |-> is_uri(term), literal |-> is_literal(term),
               blank |-> is_blank(term)]
  /\ tpc' = "probed"
  /\ UNCHANGED <<raptor_term, term, cast>>
  /\ UNCHANGED <<walker_vars, parser_vars, aggregate_vars>>

\* term_cast<rdf_uri>(term)
TermCastUri ==
  /\ tpc = "probed"
  /\ LET r == term_cast_uri(term)
     IN  cast' = [to |-> "rdf_uri", ok |-> r.ok, text |-> r.uri, literal_uri |-> <<>>]
  /\ tpc' = "cast"
  /\ UNCHANGED <<raptor_term, term, probe>>
  /\ UNCHANGED <<walker_vars, parser_vars, aggregate_vars>>

\* term_cast<rdf_literal>(term)
TermCastLiteral ==
  /\ tpc = "probed"
  /\ LET r == term_cast_literal(term)
     IN  cast' = [to |-> "rdf_literal", ok |-> r.ok, text |-> r.value,
                  literal_uri |-> r.uri]
  /\ tpc' = "cast"
  /\ UNCHANGED <<raptor_term, term, probe>>
  /\ UNCHANGED <<walker_vars, parser_vars, aggregate_vars>>

\* term_cast<rdf_blank>(term)
TermCastBlank ==
  /\ tpc = "probed"
  /\ LET r == term_cast_blank(term)
     IN  cast' = [to |-> "rdf_blank", ok |-> r.ok, text |-> r.value,
                  literal_uri |-> <<>>]
  /\ tpc' = "cast"
  /\ UNCHANGED <<raptor_term, term, probe>>
  /\ UNCHANGED <<walker_vars, parser_vars, aggregate_vars>>

TermNext ==
  \/ MakeTerm
  \/ TermProbe
  \/ TermCastUri
  \/ TermCastLiteral
  \/ TermCastBlank

(***************************************************************************)
(* What raptor delivers during one parse: statements and log messages.     *)
(***************************************************************************)
RaptorObjects == {RaptorUriTerm(u) : u \in UnsignedUris}
                 \cup {RaptorLiteralTerm, RaptorBlankTerm, RaptorUnknownTerm}
RaptorStatements ==
  {[kind |-> "statement", subject |-> RaptorUriTerm(UriA),
    predicate |-> RaptorUriTerm(p), object |-> o, level |-> "NONE"] :
     p \in {UriP, UriQ}, o \in RaptorObjects}
LogLevels == {"WARN", "ERROR", "FATAL"}
RaptorLogMessages ==
  {[kind |-> "log", subject |-> RaptorUnknownTerm, predicate |-> RaptorUnknownTerm,
    object |-> RaptorUnknownTerm, level |-> l] : l \in LogLevels}
RaptorEvents == RaptorStatements \cup RaptorLogMessages

SeqsUpTo(S, n) == UNION {[1..k -> S] : k \in 0..n}
EventStreams == SeqsUpTo(RaptorEvents, MaxEvents)

(***************************************************************************)
(* rdf_web_parser.                                                         *)
(***************************************************************************)
\* handle_statement: triples->push_back(rdf_triple(make_rdf_term(subject),
\* make_rdf_term(predicate), make_rdf_term(object))); [threw, triples]
handle_statement(data, statement) ==
  LET s == make_rdf_term(statement.subject)
      p == make_rdf_term(statement.predicate)
      o == make_rdf_term(statement.object)
  IN  IF s.threw \/ p.threw \/ o.threw
      THEN [threw |-> TRUE, triples |-> data]
      ELSE [threw |-> FALSE,
            triples |-> Append(data, rdf_triple(s.term, p.term, o.term))]

\* handle_log_messages: the new value of *good_parse
handle_log_messages(data, message) ==
  message.level # "ERROR" /\ message.level # "FATAL"

\* How an exception thrown inside a raptor callback can leave the C library:
\* it unwinds through raptor's frames, or the runtime terminates the program.
CallbackThrowOutcomes == {"domain_error", "terminate"}

\* std::copy(std::begin(triples), std::end(triples), dest)
copy_to_dest(ts) == ts

\* raptor_parser_parse_uri_with_connection: raptor calls the handlers, one
\* event after the other. st = [threw, triples, good_parse]
RECURSIVE parse_uri_with_connection(_, _)
parse_uri_with_connection(events, st) ==
  IF events = <<>> \/ st.threw THEN st
  ELSE LET e == Head(events)
       IN  IF e.kind = "statement"
           THEN LET h == handle_statement(st.triples, e)
                IN  parse_uri_with_connection(Tail(events),
                      [threw |-> h.threw, triples |-> h.triples,
                       good_parse |-> st.good_parse])
           ELSE parse_uri_with_connection(Tail(events),
                      [threw |-> FALSE, triples |-> st.triples,
                       good_parse |-> handle_log_messages(st.good_parse, e)])

\* rdf_web_parser::operator(), as a function of what raptor does:
\* [threw, good, dest]; threw is "none" when it returned.
ParserOutcomesOf(null, events) ==
  IF null THEN {[threw |-> "domain_error", good |-> FALSE, dest |-> <<>>]}
  ELSE LET st == parse_uri_with_connection(events,
                   [threw |-> FALSE, triples |-> <<>>, good_parse |-> TRUE])
       IN  IF st.threw
           THEN {[threw |-> x, good |-> FALSE, dest |-> <<>>] : x \in CallbackThrowOutcomes}
           ELSE {[threw |-> "none", good |-> st.good_parse,
                  dest |-> copy_to_dest(st.triples)]}

\* Every outcome of one call of the parser.
ParserOutcomes ==
  UNION {ParserOutcomesOf(null, events) : null \in BOOLEAN, events \in EventStreams}

\* The same call, one raptor callback at a time.
ParserInit ==
  /\ ppc = "idle"
  /\ raptor_events = <<>>
  /\ r_uri_null = FALSE
  /\ ptriples = <<>>
  /\ good_parse = TRUE
  /\ dest = <<>>
  /\ presult = "none"
  /\ log_levels = <<>>

\* operator(): lines 394-415, set the handlers up and create the uri object
ParserCall ==
  /\ ppc = "idle"
  /\ \E events \in EventStreams, null \in BOOLEAN :
       /\ raptor_events' = events
       /\ r_uri_null' = null
  /\ ptriples' = <<>>
  /\ good_parse' = TRUE
  /\ ppc' = "new_uri"
  /\ UNCHANGED <<dest, presult, log_levels>>
  /\ UNCHANGED <<walker_vars, aggregate_vars, term_vars>>

\* operator(): lines 417-418
ParserCheckUri ==
  /\ ppc = "new_uri"
  /\ IF r_uri_null
     THEN ppc' = "threw" /\ presult' = "domain_error"
     ELSE ppc' = "parsing" /\ presult' = presult
  /\ UNCHANGED <<raptor_events, r_uri_null, ptriples, good_parse, dest, log_levels>>
  /\ UNCHANGED <<walker_vars, aggregate_vars, term_vars>>

ParserHandleStatement ==
  /\ ppc = "parsing"
  /\ raptor_events # <<>>
  /\ Head(raptor_events).kind = "statement"
  /\ LET h == handle_statement(ptriples, Head(raptor_events))
     IN  IF h.threw
         THEN /\ ppc' = "threw"
              /\ presult' \in CallbackThrowOutcomes
              /\ UNCHANGED <<ptriples, raptor_events>>
         ELSE /\ ptriples' = h.triples
              /\ raptor_events' = Tail(raptor_events)
              /\ UNCHANGED <<ppc, presult>>
  /\ UNCHANGED <<r_uri_null, good_parse, dest, log_levels>>
  /\ UNCHANGED <<walker_vars, aggregate_vars, term_vars>>

ParserHandleLogMessages ==
  /\ ppc = "parsing"
  /\ raptor_events # <<>>
  /\ Head(raptor_events).kind = "log"
  /\ good_parse' = handle_log_messages(good_parse, Head(raptor_events))
  /\ raptor_events' = Tail(raptor_events)
  /\ log_levels' = Append(log_levels, Head(raptor_events).level)
  /\ UNCHANGED <<ppc, r_uri_null, ptriples, dest, presult>>
  /\ UNCHANGED <<walker_vars, aggregate_vars, term_vars>>

\* operator(): lines 426-428
ParserReturn ==
  /\ ppc = "parsing"
  /\ raptor_events = <<>>
  /\ dest' = copy_to_dest(ptriples)
  /\ presult' = IF good_parse THEN "true" ELSE "false"
  /\ ppc' = "returned"
  /\ UNCHANGED <<raptor_events, r_uri_null, ptriples, good_parse, log_levels>>
  /\ UNCHANGED <<walker_vars, aggregate_vars, term_vars>>

ParserNext ==
  \/ ParserCall
  \/ ParserCheckUri
  \/ ParserHandleStatement
  \/ ParserHandleLogMessages
  \/ ParserReturn

(***************************************************************************)
(* aggregate (ontology_visitors.hpp).                                      *)
(***************************************************************************)
\* The triples rdf_web_parser can produce, and the ranges [first, last) over them.
Terms == {make_rdf_term(o).term : o \in RaptorObjects \ {RaptorUnknownTerm}}
Triples == {rdf_triple(rdf_uri(UriA), rdf_uri(p), o) : p \in {UriP, UriQ}, o \in Terms}
TripleRanges == SeqsUpTo(Triples, MaxEvents)

NoCaller == [str_ |-> <<>>, range |-> <<>>]

\* call_me::call_me(str, first, last): str_(str), first_(first), last_(last)
call_me(str, range) == [str_ |-> str, range |-> range]

\* call_me::operator()(f): f(str_, first_, last_), recorded as an invocation
call_me_invoke(c, f) == [f |-> f, str |-> c.str_, range |-> c.range]

\* Mutant of for_each_next: an element is skipped.
for_each_skips(f) == f + 2

\* boost::fusion::for_each(functions_, caller): the element after f
for_each_next(f) == f + 1

AggregateInit ==
  /\ apc = "idle"
  /\ caller = NoCaller
  /\ fnext = 0
  /\ calls = <<>>
  /\ thrower = 0

\* aggregate::operator(): line 223 and the start of for_each
AggregateCall ==
  /\ apc = "idle"
  /\ \E str \in StdUris, range \in TripleRanges : caller' = call_me(str, range)
  /\ fnext' = 1
  /\ apc' = "for_each"
  /\ UNCHANGED <<calls, thrower>>
  /\ UNCHANGED <<walker_vars, parser_vars, term_vars>>

\* Mutant of AggregateCallMe: the exception of a component function is
\* caught and the next one is called.
AggregateCallMeSwallows ==
  /\ apc = "for_each"
  /\ fnext <= NumFunctions
  /\ calls' = Append(calls, call_me_invoke(caller, fnext))
  /\ \E throws \in BOOLEAN :
       /\ thrower' = IF throws THEN fnext ELSE thrower
       /\ fnext' = for_each_next(fnext)
       /\ apc' = apc
  /\ UNCHANGED caller
  /\ UNCHANGED <<walker_vars, parser_vars, term_vars>>

\* for_each applies caller to the next element of functions_, which returns or throws
AggregateCallMe ==
  /\ apc = "for_each"
  /\ fnext <= NumFunctions
  /\ calls' = Append(calls, call_me_invoke(caller, fnext))
  /\ \E throws \in BOOLEAN :
       IF throws
       THEN apc' = "thrown" /\ fnext' = fnext /\ thrower' = fnext
       ELSE apc' = apc /\ fnext' = for_each_next(fnext) /\ thrower' = thrower
  /\ UNCHANGED caller
  /\ UNCHANGED <<walker_vars, parser_vars, term_vars>>

\* for_each is through, operator() returns
AggregateReturn ==
  /\ apc = "for_each"
  /\ fnext > NumFunctions
  /\ apc' = "returned"
  /\ UNCHANGED <<caller, fnext, calls, thrower>>
  /\ UNCHANGED <<walker_vars, parser_vars, term_vars>>

AggregateNext ==
  \/ AggregateCall
  \/ AggregateCallMe
  \/ AggregateReturn

(***************************************************************************)
(* ontology_walker (ontology_walker.hpp).                                  *)
(***************************************************************************)
\* The admission predicates a walker is built with: true_const_pred of
\* make_ontology_walker(func), or a user's predicate on the triple.
Predicates == {"true_const_pred", "predicate_is_p"}

\* Mutant of pred_call: true_const_pred answers as the user's predicate does.
pred_call_is_p(pred, t) == t.predicate = rdf_uri(UriP)

\* pred_(t)
pred_call(pred, t) ==
  CASE pred = "true_const_pred" -> TRUE
    [] pred = "predicate_is_p" -> t.predicate = rdf_uri(UriP)

\* The lambda given to remove_if: return !pred_(t)
remove_lambda(pred, t) == ~pred_call(pred, t)

\* std::find_if(first, last, p): index of the first element to remove, or last
RECURSIVE find_if(_, _, _)
find_if(list, first, pred) ==
  IF first > Len(list) \/ remove_lambda(pred, list[first]) THEN first
  ELSE find_if(list, first + 1, pred)

\* The loop of std::remove_if: elements that stay are assigned to *result++
\* (the assignment is a move; what it leaves behind is never read).
RECURSIVE remove_if_loop(_, _, _, _)
remove_if_loop(list, result, first, pred) ==
  IF first > Len(list) THEN [list |-> list, new_end |-> result - 1]
  ELSE IF ~remove_lambda(pred, list[first])
       THEN remove_if_loop([list EXCEPT ![result] = list[first]], result + 1,
                           first + 1, pred)
       ELSE remove_if_loop(list, result, first + 1, pred)

\* std::remove_if(begin(triples), end(triples), lambda): the list afterwards
\* and the number of elements before new_end
remove_if(list, pred) ==
  LET first == find_if(list, 1, pred)
  IN  IF first > Len(list) THEN [list |-> list, new_end |-> Len(list)]
      ELSE remove_if_loop(list, first, first + 1, pred)

\* The elements std::find_if calls the lambda on, from first on
RECURSIVE find_if_evals(_, _, _)
find_if_evals(list, first, pred) ==
  IF first > Len(list) THEN <<>>
  ELSE IF remove_lambda(pred, list[first]) THEN <<list[first]>>
       ELSE <<list[first]>> \o find_if_evals(list, first + 1, pred)

\* Mutant of remove_if_evals: the loop starts at the element find_if stopped
\* at, and calls the lambda on it again.
remove_if_evals_again(list, pred) ==
  LET first == find_if(list, 1, pred)
  IN  find_if_evals(list, 1, pred) \o SubSeq(list, first, Len(list))

\* The elements std::remove_if calls the lambda (and so pred_) on, in order:
\* those of find_if, then those of the loop, which starts one after the
\* element find_if stopped at
remove_if_evals(list, pred) ==
  LET first == find_if(list, 1, pred)
  IN  find_if_evals(list, 1, pred) \o SubSeq(list, first + 1, Len(list))

\* Mutant of range_of: end(triples) is used in place of new_end.
range_of_whole(list, end) == list

\* The range [begin(triples), new_end) handed to func_ and to for_each
range_of(list, end) == SubSeq(list, 1, end)

\* Mutant of push_lambda: the text of the object is pushed whatever its
\* variant is.
push_lambda_any(fr, t) ==
  [threw |-> FALSE, fringe |-> Append(fr, to_std_string(t.object.text))]

\* Mutant of push_lambda: term_cast<rdf_uri> is called without asking is_uri.
push_lambda_unguarded(fr, t) ==
  LET next_uri == term_cast_uri(t.object)
  IN  IF next_uri.ok
      THEN [threw |-> FALSE, fringe |-> Append(fr, to_std_string(next_uri.uri))]
      ELSE [threw |-> TRUE, fringe |-> fr]

\* Mutant of push_lambda: the uri is put at the front of the fringe.
push_lambda_front(fr, t) ==
  IF is_uri(t.object)
  THEN [threw |-> FALSE, fringe |-> <<to_std_string(t.object.text)>> \o fr]
  ELSE [threw |-> FALSE, fringe |-> fr]

\* The lambda of the for_each at lines 105-114, on one triple: [threw, fringe]
push_lambda(fr, t) ==
  LET obj == t.object
  IN  IF is_uri(obj)
      THEN LET next_uri == term_cast_uri(obj)
           IN  IF next_uri.ok
               THEN [threw |-> FALSE, fringe |-> Append(fr, to_std_string(next_uri.uri))]
               ELSE [threw |-> TRUE, fringe |-> fr]
      ELSE [threw |-> FALSE, fringe |-> fr]

\* Mutant of push_for_each: the lambda is applied to the first triple only.
push_for_each_first(fr, range) ==
  IF range = <<>> THEN [threw |-> FALSE, fringe |-> fr]
  ELSE push_lambda(fr, Head(range))

\* std::for_each(begin(triples), new_end, lambda): [threw, fringe]
RECURSIVE push_for_each(_, _)
push_for_each(fr, range) ==
  IF range = <<>> THEN [threw |-> FALSE, fringe |-> fr]
  ELSE LET r == push_lambda(fr, Head(range))
       IN  IF r.threw THEN r ELSE push_for_each(r.fringe, Tail(range))

\* Mutant of not_seen: the closed list is not consulted.
not_seen_always(closed, uri) == TRUE

\* closed_list.find(current_uri) == closed_list.end()
not_seen(closed, uri) == uri \notin closed

\* Mutant of closed_insert: the uri takes the place of what was there.
closed_insert_replaces(closed, uri) == {uri}

\* Mutant of closed_insert: the uri is not inserted.
closed_insert_nothing(closed, uri) == closed

\* closed_list.insert(current_uri)
closed_insert(closed, uri) == closed \cup {uri}

\* Mutant of fringe_front: the fringe is read at its back, as a stack.
fringe_back(fr) == fr[Len(fr)]

\* fringe.front()
fringe_front(fr) == Head(fr)

\* Mutant of fringe_pop: the front is not removed.
fringe_pop_keeps(fr) == fr

\* fringe.pop()
fringe_pop(fr) == Tail(fr)

\* The elements of s that are not yet in seen, in order, each once
RECURSIVE FirstSeen(_, _)
FirstSeen(seen, s) ==
  IF s = <<>> THEN seen
  ELSE IF \E i \in 1..Len(seen) : seen[i] = Head(s)
       THEN FirstSeen(seen, Tail(s))
       ELSE FirstSeen(Append(seen, Head(s)), Tail(s))

NoArgs == [uri |-> <<>>, range |-> <<>>]

WalkerInit ==
  /\ pc = "idle"
  /\ pred_ \in Predicates
  /\ closed_list = {}
  /\ fringe = <<>>
  /\ current_uri = <<>>
  /\ triples = <<>>
  /\ good_rdf = FALSE
  /\ new_end = 0
  /\ error = "none"
  /\ attempted = <<>>
  /\ discovered = <<>>
  /\ visited = <<>>
  /\ fetched = <<>>
  /\ func_args = NoArgs
  /\ fetch_results = <<>>
  /\ pred_evals = <<>>
  /\ edges = {}
  /\ walk_no = 1
  /\ prev_closed = {}

\* operator()(uri): lines 70-72
Walk ==
  /\ pc = "idle"
  /\ \E uri \in StartUris :
       /\ fringe' = <<uri>>
       /\ discovered' = <<uri>>
  /\ closed_list' = {}
  /\ pc' = "loop"
  /\ UNCHANGED <<pred_, current_uri, triples, good_rdf, new_end, error, attempted,
                 visited, fetched, func_args, fetch_results, pred_evals, edges,
                 walk_no, prev_closed>>
  /\ UNCHANGED <<parser_vars, aggregate_vars, term_vars>>

\* Mutant of WalkAgain: the closed list of the previous call is kept.
WalkAgainKeepsClosed ==
  /\ pc \in {"done", "error"}
  /\ walk_no < MaxWalks
  /\ walk_no' = walk_no + 1
  /\ prev_closed' = closed_list
  /\ \E uri \in StartUris :
       /\ fringe' = <<uri>>
       /\ discovered' = <<uri>>
  /\ closed_list' = closed_list
  /\ pc' = "loop"
  /\ current_uri' = <<>>
  /\ good_rdf' = FALSE
  /\ error' = "none"
  /\ attempted' = <<>>
  /\ visited' = <<>>
  /\ fetch_results' = <<>>
  /\ UNCHANGED <<pred_, triples, new_end, fetched, func_args, pred_evals, edges>>
  /\ UNCHANGED <<parser_vars, aggregate_vars, term_vars>>

\* operator()(uri) is called again on the same walker object, after the
\* previous call returned or was left by an exception: lines 70-72, with
\* new locals
WalkAgain ==
  /\ pc \in {"done", "error"}
  /\ walk_no < MaxWalks
  /\ walk_no' = walk_no + 1
  /\ prev_closed' = closed_list
  /\ \E uri \in StartUris :
       /\ fringe' = <<uri>>
       /\ discovered' = <<uri>>
  /\ closed_list' = {}
  /\ pc' = "loop"
  /\ current_uri' = <<>>
  /\ good_rdf' = FALSE
  /\ error' = "none"
  /\ attempted' = <<>>
  /\ visited' = <<>>
  /\ fetch_results' = <<>>
  /\ UNCHANGED <<pred_, triples, new_end, fetched, func_args, pred_evals, edges>>
  /\ UNCHANGED <<parser_vars, aggregate_vars, term_vars>>

\* line 74, the fringe is empty: operator() returns
Return ==
  /\ pc = "loop"
  /\ fringe = <<>>
  /\ pc' = "done"
  /\ UNCHANGED <<pred_, closed_list, fringe, current_uri, triples, good_rdf, new_end,
                 error, attempted, discovered, visited, fetched, func_args,
                 fetch_results, pred_evals, edges, walk_no, prev_closed>>
  /\ UNCHANGED <<parser_vars, aggregate_vars, term_vars>>

\* lines 74-83: take the front of the fringe, test it against the closed list
Dequeue ==
  /\ pc = "loop"
  /\ fringe # <<>>
  /\ current_uri' = fringe_front(fringe)
  /\ fringe' = fringe_pop(fringe)
  /\ IF not_seen(closed_list, fringe_front(fringe))
     THEN /\ closed_list' = closed_insert(closed_list, fringe_front(fringe))
          /\ pc' = "parse"
     ELSE /\ closed_list' = closed_list
          /\ pc' = "loop"
  /\ UNCHANGED <<pred_, triples, good_rdf, new_end, error, attempted, discovered,
                 visited, fetched, func_args, fetch_results, pred_evals, edges,
                 walk_no, prev_closed>>
  /\ UNCHANGED <<parser_vars, aggregate_vars, term_vars>>

\* What one call p(current_uri, back_inserter(triples)) came to: the flag it
\* returned, or the exception it threw
parser_result(o) ==
  IF o.threw # "none" THEN o.threw ELSE IF o.good THEN "true" ELSE "false"

\* The uri objects of the triples of a document that pred_ admits, as pairs
\* with the uri of the document
references(uri, doc, pred) ==
  {<<uri, to_std_string(doc[i].object.text)>> :
     i \in {j \in 1..Len(doc) : pred_call(pred, doc[j]) /\ is_uri(doc[j].object)}}

\* What visiting a document with these triples would leave on the fringe
FringeAfter(fr, pred, ts) ==
  LET r == remove_if(ts, pred)
  IN  push_for_each(fr, range_of(r.list, r.new_end)).fringe

\* The outcomes of the parser on a web whose documents keep the fringe
\* within MaxFringe
BoundedOutcomes(fr, pred) ==
  {o \in ParserOutcomes :
     o.threw = "none" /\ o.good => Len(FringeAfter(fr, pred, o.dest)) <= MaxFringe}

\* Mutant of ParseVisitStep: func_ is not called when no triple is left
\* after remove_if.
ParseVisitStepSkipsEmpty ==
  /\ pc = "parse"
  /\ attempted' = Append(attempted, current_uri)
  /\ \E o \in BoundedOutcomes(fringe, pred_) :
       /\ error' = IF o.threw # "none" THEN o.threw ELSE error
       /\ fetch_results' = Append(fetch_results, parser_result(o))
       /\ fetched' = o.dest
       /\ good_rdf' = IF o.threw = "none" THEN o.good ELSE good_rdf
       /\ IF o.threw = "none" /\ o.good /\ remove_if(o.dest, pred_).new_end > 0
          THEN LET r == remove_if(o.dest, pred_)
               IN  /\ triples' = r.list
                   /\ new_end' = r.new_end
                   /\ func_args' = [uri |-> current_uri,
                                    range |-> range_of(r.list, r.new_end)]
                   /\ visited' = Append(visited, current_uri)
                   /\ pred_evals' = remove_if_evals(o.dest, pred_)
                   /\ pc' = "func"
          ELSE /\ triples' = o.dest
               /\ pc' = IF o.threw # "none" THEN "error" ELSE "skip"
               /\ UNCHANGED <<new_end, func_args, visited, pred_evals>>
  /\ UNCHANGED <<pred_, closed_list, fringe, current_uri, discovered, walk_no,
                 prev_closed>>
  /\ UNCHANGED <<parser_vars, aggregate_vars, term_vars>>

\* lines 86-100: rdf_web_parser p; good_rdf = p(current_uri, back_inserter(triples));
\* if (good_rdf): remove_if, then func_(current_uri, begin(triples), new_end)
\* is entered
ParseVisitStep ==
  /\ pc = "parse"
  /\ attempted' = Append(attempted, current_uri)
  /\ \E o \in BoundedOutcomes(fringe, pred_) :
       /\ error' = IF o.threw # "none" THEN o.threw ELSE error
       /\ fetch_results' = Append(fetch_results, parser_result(o))
       /\ fetched' = o.dest
       /\ good_rdf' = IF o.threw = "none" THEN o.good ELSE good_rdf
       /\ IF o.threw = "none" /\ o.good
          THEN LET r == remove_if(o.dest, pred_)
               IN  /\ triples' = r.list
                   /\ new_end' = r.new_end
                   /\ func_args' = [uri |-> current_uri,
                                    range |-> range_of(r.list, r.new_end)]
                   /\ visited' = Append(visited, current_uri)
                   /\ pred_evals' = remove_if_evals(o.dest, pred_)
                   /\ pc' = "func"
          ELSE /\ triples' = o.dest
               /\ pc' = IF o.threw # "none" THEN "error" ELSE "skip"
               /\ UNCHANGED <<new_end, func_args, visited, pred_evals>>
  /\ UNCHANGED <<pred_, closed_list, fringe, current_uri, discovered, walk_no,
                 prev_closed>>
  /\ UNCHANGED <<parser_vars, aggregate_vars, term_vars>>

\* The step of lines 86-100 in a walk whose graph is not recorded
ParseVisit == ParseVisitStep /\ UNCHANGED edges

\* The same step in a walk whose graph is recorded: a successful fetch adds
\* the references of the document
ParseVisitGraph ==
  /\ ParseVisitStep
  /\ edges' = IF pc' = "func"
              THEN edges \cup references(current_uri, fetched', pred_)
              ELSE edges

\* Mutant of Skip: the uri objects of the delivered triples are pushed
\* although good_rdf was false.
SkipPushes ==
  /\ pc = "skip"
  /\ pc' = "loop"
  /\ fringe' = push_for_each(fringe, triples).fringe
  /\ triples' = <<>>
  /\ fetched' = <<>>
  /\ UNCHANGED <<pred_, closed_list, current_uri, good_rdf, new_end, error,
                 attempted, discovered, visited, func_args, fetch_results,
                 pred_evals, edges, walk_no, prev_closed>>
  /\ UNCHANGED <<parser_vars, aggregate_vars, term_vars>>

\* Mutant of Skip: a uri whose fetch failed is taken off the closed list.
SkipUncloses ==
  /\ pc = "skip"
  /\ pc' = "loop"
  /\ closed_list' = closed_list \ {current_uri}
  /\ triples' = <<>>
  /\ fetched' = <<>>
  /\ UNCHANGED <<pred_, fringe, current_uri, good_rdf, new_end, error,
                 attempted, discovered, visited, func_args, fetch_results,
                 pred_evals, edges, walk_no, prev_closed>>
  /\ UNCHANGED <<parser_vars, aggregate_vars, term_vars>>

\* lines 115-116, good_rdf was false: the iteration ends
Skip ==
  /\ pc = "skip"
  /\ pc' = "loop"
  /\ triples' = <<>>
  /\ fetched' = <<>>
  /\ UNCHANGED <<pred_, closed_list, fringe, current_uri, good_rdf, new_end, error,
                 attempted, discovered, visited, func_args, fetch_results,
                 pred_evals, edges, walk_no, prev_closed>>
  /\ UNCHANGED <<parser_vars, aggregate_vars, term_vars>>

\* Mutant of FuncThrow: the exception of func_ is caught and the loop goes on.
FuncThrowSwallowed ==
  /\ pc = "func"
  /\ pc' = "loop"
  /\ error' = "observer"
  /\ triples' = <<>>
  /\ fetched' = <<>>
  /\ new_end' = 0
  /\ func_args' = NoArgs
  /\ pred_evals' = <<>>
  /\ UNCHANGED <<pred_, closed_list, fringe, current_uri, good_rdf, attempted,
                 discovered, visited, fetch_results, edges, walk_no, prev_closed>>
  /\ UNCHANGED <<parser_vars, aggregate_vars, term_vars>>

\* func_ throws: nothing catches it, it leaves operator() and the locals of
\* the iteration are destroyed
FuncThrow ==
  /\ pc = "func"
  /\ pc' = "error"
  /\ error' = "observer"
  /\ triples' = <<>>
  /\ fetched' = <<>>
  /\ new_end' = 0
  /\ func_args' = NoArgs
  /\ pred_evals' = <<>>
  /\ UNCHANGED <<pred_, closed_list, fringe, current_uri, good_rdf, attempted,
                 discovered, visited, fetch_results, edges, walk_no, prev_closed>>
  /\ UNCHANGED <<parser_vars, aggregate_vars, term_vars>>

\* func_ returned; lines 103-116: push the uri objects of
\* [begin(triples), new_end) on the fringe; the iteration ends
Push ==
  /\ pc = "func"
  /\ LET r == push_for_each(fringe, range_of(triples, new_end))
         pushed == SubSeq(r.fringe, Len(fringe) + 1, Len(r.fringe))
     IN  /\ fringe' = r.fringe
         /\ discovered' = FirstSeen(discovered, pushed)
         /\ IF r.threw
            THEN pc' = "error" /\ error' = "bad cast"
            ELSE pc' = "loop" /\ error' = error
  /\ triples' = <<>>
  /\ fetched' = <<>>
  /\ new_end' = 0
  /\ func_args' = NoArgs
  /\ pred_evals' = <<>>
  /\ UNCHANGED <<pred_, closed_list, current_uri, good_rdf, attempted, visited,
                 fetch_results, edges, walk_no, prev_closed>>
  /\ UNCHANGED <<parser_vars, aggregate_vars, term_vars>>

WalkerNext ==
  \/ Walk
  \/ Return
  \/ Dequeue
  \/ ParseVisit
  \/ Skip
  \/ FuncThrow
  \/ Push

\* The steps of consecutive walks with one walker object
WalkerTwiceNext ==
  \/ WalkerNext
  \/ WalkAgain

\* The steps of a walk whose graph is recorded
WalkerGraphNext ==
  \/ Walk
  \/ Return
  \/ Dequeue
  \/ ParseVisitGraph
  \/ Skip
  \/ FuncThrow
  \/ Push

(***************************************************************************)
(* Specifications.                                                         *)
(***************************************************************************)
Init == WalkerInit /\ ParserInit /\ AggregateInit /\ TermInit

\* One walk of an ontology.
Next == WalkerNext
Spec == Init /\ [][Next]_vars

\* One walk of an ontology, with the graph of the references it met.
NextGraph == WalkerGraphNext
SpecGraph == Init /\ [][NextGraph]_vars

\* Consecutive walks with one walker object.
NextTwice == WalkerTwiceNext
SpecTwice == Init /\ [][NextTwice]_vars

\* One call of rdf_web_parser::operator().
NextParser == ParserNext
SpecParser == Init /\ [][NextParser]_vars

\* One rdf_term, made, asked for its variant and cast.
NextTerms == TermNext
SpecTerms == Init /\ [][NextTerms]_vars

\* One call of aggregate::operator().
NextAggregate == AggregateNext
SpecAggregate == Init /\ [][NextAggregate]_vars

(***************************************************************************)
(* Properties.                                                             *)
(***************************************************************************)
Range(s) == {s[i] : i \in 1..Len(s)}
NoDuplicates(s) == \A i, j \in 1..Len(s) : i # j => s[i] # s[j]
IsPrefix(s, t) == Len(s) <= Len(t) /\ SubSeq(t, 1, Len(s)) = s
Occurrences(s, x) == Cardinality({i \in 1..Len(s) : s[i] = x})
Admitted(t) == pred_call(pred_, t)
PushesUri(t) == Admitted(t) /\ t.object.which = "rdf_uri"
Ended == pc \in {"done", "error"}
StdA == to_std_string(UriA)
StdB == to_std_string(UriB)
StdC == to_std_string(UriC)
StdD == to_std_string(UriD)

\* C1: during one walk call no URI is passed to the observer more than once,
\* however many admitted triples reference it and however often it sits on
\* the fringe.
C1_AtMostOnce == NoDuplicates(visited)

\* A URI that was passed to the observer sits twice on the fringe again.
C1_Witness ==
  \E u \in Range(visited) : fringe = <<u, u>> /\ pc = "loop"

\* C2: the walk ends. Every step of operator() changes the state and lowers
\* a measure that is a natural number (so there are finitely many steps,
\* cycles or not), a walk that has not ended can take a step, and it returns
\* only with an empty fringe. Once every URI on the fringe is closed, as after B's visit on the
\* cycle A -> B -> A and after A's visit on the self-loop A -> A, nothing is
\* fetched or visited any more: A and B stay visited once each.
PcRank ==
  CASE pc = "idle" -> MaxEvents + 5
    [] pc = "parse" -> MaxEvents + 3
    [] pc = "func" -> MaxEvents + 2
    [] pc = "skip" -> 2
    [] pc = "loop" -> 1
    [] OTHER -> 0
Unclosed == IF pc = "idle" THEN StdUris ELSE StdUris \ closed_list
Measure == (MaxEvents + 4) * Cardinality(Unclosed) + Len(fringe) + PcRank
OnlyClosedLeft == pc = "loop" /\ Range(fringe) \subseteq closed_list
RefersOnlyTo(u) ==
  /\ func_args.range # <<>>
  /\ \A i \in 1..Len(func_args.range) : func_args.range[i].object = rdf_uri(u)
TwoCycle ==
  /\ pc = "func"
  /\ current_uri = StdB
  /\ visited = <<StdA, StdB>>
  /\ fringe = <<>>
  /\ RefersOnlyTo(UriA)
SelfLoop ==
  /\ pc = "func"
  /\ current_uri = StdA
  /\ visited = <<StdA>>
  /\ fringe = <<>>
  /\ RefersOnlyTo(UriA)
C2_Terminates ==
  /\ [][Measure' < Measure /\ Measure' >= 0]_vars
  /\ [](~ENABLED (UNCHANGED vars /\ Next))
  /\ [](Ended \/ ENABLED Next)
  /\ [](pc = "done" => fringe = <<>>)
  /\ [][(TwoCycle \/ SelfLoop) /\ pc' = "loop" => OnlyClosedLeft']_vars
  /\ [][OnlyClosedLeft =>
          /\ visited' = visited
          /\ attempted' = attempted
          /\ (OnlyClosedLeft' \/ (pc' = "done" /\ fringe' = <<>>))]_vars

\* The walk over the two-node cycle has returned.
C2_Witness ==
  /\ pc = "done"
  /\ visited = <<StdA, StdB>>
  /\ attempted = <<StdA, StdB>>
  /\ current_uri = StdA

\* C3: the range handed to the observer is the subsequence of the fetched
\* triples that the admission predicate accepts, in their order, and the
\* uri is the one that was fetched.
C3_FilterExact ==
  pc = "func" =>
    /\ func_args.range = SelectSeq(fetched, Admitted)
    /\ func_args.uri = current_uri
    /\ current_uri = attempted[Len(attempted)]

\* Of two fetched triples one is rejected and the other one is delivered.
C3_Witness ==
  /\ pc = "func"
  /\ Len(fetched) = 2
  /\ ~Admitted(fetched[1])
  /\ func_args.range = <<fetched[2]>>

\* Two different admitted triples are delivered in fetch order.
C3_WitnessOrder ==
  /\ pc = "func"
  /\ Len(func_args.range) = 2
  /\ func_args.range[1] # func_args.range[2]

\* C4: URIs are attempted in the order of their first push on the fringe,
\* and the observer sees the successfully fetched ones in that order.
C4_Fifo ==
  /\ IsPrefix(attempted, discovered)
  /\ visited = SelectSeq(attempted, LAMBDA u : u \in Range(visited))
  /\ (Range(visited) = {StdA, StdB, StdC, StdD} /\ discovered = <<StdA, StdB, StdC, StdD>>)
       => visited = <<StdA, StdB, StdC, StdD>>

\* D is being visited after A, B and C, and sits on the fringe once more:
\* it was pushed twice.
C4_Witness ==
  /\ pc = "func"
  /\ visited = <<StdA, StdB, StdC, StdD>>
  /\ discovered = <<StdA, StdB, StdC, StdD>>
  /\ fringe = <<StdD>>

\* C5: a fetch that reports failure brings no observer invocation and no
\* push, whatever triples the parser delivered with it, and the walk goes on
\* with the fringe as it was; a walk whose first fetch fails attempts
\* nothing else and invokes the observer never.
C5_FetchFailure ==
  /\ [](pc = "skip" =>
          /\ ~good_rdf
          /\ current_uri \notin Range(visited)
          /\ func_args = NoArgs)
  /\ [][pc' = "skip" => fringe' = fringe /\ visited' = visited]_vars
  /\ [][pc = "skip" =>
          /\ pc' = "loop"
          /\ fringe' = fringe
          /\ discovered' = discovered
          /\ visited' = visited]_vars
  /\ []((attempted # <<>> /\ attempted[1] \notin Range(visited)) =>
          /\ attempted = <<discovered[1]>>
          /\ visited = <<>>
          /\ fringe = <<>>
          /\ pc \in {"skip", "loop", "done", "error"})

\* A failed fetch delivered an admitted triple with a uri object, and other
\* URIs wait on the fringe.
C5_Witness ==
  /\ pc = "skip"
  /\ \E i \in 1..Len(fetched) : PushesUri(fetched[i])
  /\ fringe # <<>>

\* The fetch of the start URI failed and the walk returned.
C5_WitnessStart ==
  /\ pc = "done"
  /\ Len(attempted) = 1
  /\ visited = <<>>

\* C6, as stated: a URI in the closed set is never appended to the fringe.
C6_NeverAppended ==
  [][\A u \in closed_list : Occurrences(fringe', u) <= Occurrences(fringe, u)]_vars

\* C6, amended: a URI in the closed set that has been attempted is never
\* handed to the parser or to the observer again; it can be appended to the
\* fringe again, and is then dropped when it is dequeued.
C6_NeverAttemptedAgain ==
  [][\A u \in closed_list \cap Range(attempted) :
       /\ Occurrences(attempted', u) = 1
       /\ Occurrences(visited', u) = Occurrences(visited, u)
       /\ (pc = "loop" /\ fringe # <<>> /\ Head(fringe) = u) =>
            (pc' = "loop" /\ attempted' = attempted)]_vars

\* A URI that was attempted and is closed sits on the fringe again.
C6_Witness ==
  /\ pc = "loop"
  /\ \E u \in closed_list \cap Range(attempted) : u \in Range(fringe)

\* C7, as stated: no failure of the fetch/parse step ends the walk with an
\* error; only an observer failure does.
C7_FetchFailureAbsorbed == pc = "error" => error = "observer"

\* C8, as stated: when the parser returns false, it has written no triple.
C8_EmptyOnFailure == presult = "false" => dest = <<>>

\* C9: the calls an aggregate has made are those of its first component
\* functions, one each, in construction order, each with the uri and the
\* range the aggregate was invoked with; when it returns it has called them
\* all.
ExpectedCalls(n) ==
  [i \in 1..n |-> [f |-> i, str |-> caller.str_, range |-> caller.range]]
C9_EachOnceInOrder ==
  /\ Len(calls) <= NumFunctions
  /\ calls = ExpectedCalls(Len(calls))
  /\ apc = "for_each" => Len(calls) = fnext - 1
  /\ apc = "returned" => Len(calls) = NumFunctions

\* An aggregate invoked on a range of two triples has returned.
C9_Witness ==
  /\ apc = "returned"
  /\ Len(caller.range) = 2
  /\ caller.range[1] # caller.range[2]

\* C10: when component function k throws, the aggregate is left by that
\* exception, the functions before k have been called once each and none
\* after k is called.
C10_FailFast ==
  /\ thrower # 0 =>
       /\ apc = "thrown"
       /\ calls = ExpectedCalls(thrower)
  /\ apc = "thrown" => thrower \in 1..NumFunctions

\* The second of the component functions threw.
C10_Witness ==
  /\ apc = "thrown"
  /\ thrower = 2
  /\ Len(calls) = 2

\* C11: when the observer fails while visiting u, the exception leaves
\* operator() at once: the uri objects of u's admitted triples are not pushed,
\* and after it nothing is fetched, observed or pushed any more.
C11_ObserverFailFast ==
  /\ [][(pc = "func" /\ error' = "observer") =>
          /\ pc' = "error"
          /\ fringe' = fringe
          /\ discovered' = discovered
          /\ attempted' = attempted
          /\ visited' = visited
          /\ visited[Len(visited)] = current_uri]_vars
  /\ [](error = "observer" => (pc = "error" /\ ~ENABLED Next))

\* The observer failed on B, which A's document referenced, while C was
\* waiting on the fringe: C is never fetched.
C11_Witness ==
  /\ pc = "error"
  /\ error = "observer"
  /\ visited = <<StdA, StdB>>
  /\ attempted = <<StdA, StdB>>
  /\ fringe = <<StdC>>

\* C12: the observer is invoked once for every URI whose fetch returned
\* true, with that URI, also when no triple is admitted, and for no other
\* URI: the URIs it was invoked with are those of the successful fetches, in
\* their order, and no URI is fetched twice.
GoodAttempted ==
  LET idx == SelectSeq([i \in 1..Len(attempted) |-> i],
                       LAMBDA i : fetch_results[i] = "true")
  IN  [k \in 1..Len(idx) |-> attempted[idx[k]]]
C12_OncePerGoodFetch ==
  /\ Len(fetch_results) = Len(attempted)
  /\ NoDuplicates(attempted)
  /\ visited = GoodAttempted
  /\ pc = "func" =>
       /\ fetch_results[Len(fetch_results)] = "true"
       /\ func_args.uri = attempted[Len(attempted)]
  /\ pc = "skip" => fetch_results[Len(fetch_results)] = "false"

\* After a successful and a failed fetch, the observer is invoked on a
\* document of which the predicate admitted no triple.
C12_Witness ==
  /\ pc = "func"
  /\ attempted = <<StdA, StdB, StdC>>
  /\ fetch_results = <<"true", "false", "true">>
  /\ visited = <<StdA, StdC>>
  /\ fetched # <<>>
  /\ func_args = [uri |-> StdC, range |-> <<>>]

\* C13: of is_uri, is_literal and is_blank exactly one answers true on a
\* term, the one of the variant the term was made with; term_cast<T> returns
\* the stored value when T is that variant and throws otherwise, for each of
\* the three T.
VariantOf(r) ==
  CASE r.type = "URI" -> "rdf_uri"
    [] r.type = "LITERAL" -> "rdf_literal"
    [] r.type = "BLANK" -> "rdf_blank"
    [] OTHER -> "none"
C13_TermVariants ==
  /\ tpc \in {"probed", "cast"} =>
       /\ Cardinality({k \in {"uri", "literal", "blank"} : probe[k]}) = 1
       /\ probe.uri <=> VariantOf(raptor_term) = "rdf_uri"
       /\ probe.literal <=> VariantOf(raptor_term) = "rdf_literal"
       /\ probe.blank <=> VariantOf(raptor_term) = "rdf_blank"
  /\ tpc = "cast" =>
       /\ cast.to \in {"rdf_uri", "rdf_literal", "rdf_blank"}
       /\ cast.ok <=> cast.to = VariantOf(raptor_term)
       /\ cast.ok => /\ cast.text = raptor_term.string
                     /\ cast.literal_uri = raptor_term.datatype
       /\ ~cast.ok => cast.text = <<>> /\ cast.literal_uri = <<>>

\* A literal whose text is that of a URI was cast to rdf_uri: bad cast.
C13_Witness ==
  /\ tpc = "cast"
  /\ raptor_term.type = "LITERAL"
  /\ raptor_term.string = UriA
  /\ cast.to = "rdf_uri"
  /\ ~cast.ok

\* C14: a walker built without a predicate (true_const_pred) hands the
\* observer all the fetched triples in fetch order, and pushes the uri object
\* of every fetched triple.
ObjectUris(ts) ==
  LET s == SelectSeq(ts, LAMBDA t : t.object.which = "rdf_uri")
  IN  [i \in 1..Len(s) |-> to_std_string(s[i].object.text)]
C14_DefaultAdmitsAll ==
  /\ []((pred_ = "true_const_pred" /\ pc = "func") =>
          func_args = [uri |-> current_uri, range |-> fetched])
  /\ [][(pred_ = "true_const_pred" /\ pc = "func" /\ error' # "observer") =>
          /\ pc' = "loop"
          /\ fringe' = fringe \o ObjectUris(fetched)]_vars

\* The observer of a walker without predicate gets two triples with
\* different predicates and uri objects.
C14_Witness ==
  /\ pred_ = "true_const_pred"
  /\ pc = "func"
  /\ Len(func_args.range) = 2
  /\ func_args.range[1].predicate = rdf_uri(UriQ)
  /\ func_args.range[2].predicate = rdf_uri(UriP)
  /\ ObjectUris(func_args.range) = <<StdB, StdD>>

\* C15: the parser is called at most once per URI in one walk, whether it
\* succeeds or fails; the URI it is called on is in the closed list at that
\* moment; and when the URI taken from the fringe is already closed, the
\* iteration ends without a call of the parser or of the observer.
C15_FetchOncePerUri ==
  /\ [](NoDuplicates(attempted) /\ Len(fetch_results) = Len(attempted))
  /\ [](pc = "parse" => current_uri \in closed_list)
  /\ [][attempted' # attempted =>
          /\ pc = "parse"
          /\ current_uri \in closed_list
          /\ attempted' = Append(attempted, current_uri)]_vars
  /\ [][(pc = "loop" /\ fringe # <<>> /\ Head(fringe) \in closed_list) =>
          /\ pc' = "loop"
          /\ fringe' = Tail(fringe)
          /\ closed_list' = closed_list
          /\ attempted' = attempted
          /\ fetch_results' = fetch_results
          /\ visited' = visited]_vars

\* B, whose fetch failed, is at the front of the fringe again.
C15_Witness ==
  /\ pc = "loop"
  /\ attempted = <<StdA, StdB>>
  /\ fetch_results = <<"true", "false">>
  /\ fringe = <<StdB>>
  /\ StdB \in closed_list

\* C16: a successful visit of u leaves on the fringe what was there when u
\* was taken off its front, followed by the object URIs of u's admitted
\* triples whose object is a URI, in triple order, duplicates kept; rejected
\* triples, literal and blank objects, subjects and predicates add nothing.
C16_PushExact ==
  /\ [][(pc = "loop" /\ pc' = "parse") => fringe = <<current_uri'>> \o fringe']_vars
  /\ [][pc = "parse" => fringe' = fringe]_vars
  /\ [][(pc = "func" /\ pc' # "error") =>
          /\ pc' = "loop"
          /\ fringe' = fringe \o ObjectUris(SelectSeq(fetched, Admitted))]_vars

\* B's visit has pushed C behind the C that A's visit had left there.
C16_Witness ==
  /\ pc = "loop"
  /\ attempted = <<StdA, StdB>>
  /\ visited = <<StdA, StdB>>
  /\ fringe = <<StdC, StdC>>

\* C17: when a fetch succeeded, pred_ has been called once on each fetched
\* triple, in fetch order, by the time the observer is invoked; in an
\* iteration whose fetch failed or whose URI was already closed it is not
\* called.
C17_PredicateOncePerTriple ==
  /\ pc = "func" => pred_evals = fetched
  /\ pc # "func" => pred_evals = <<>>

\* The first of two different fetched triples was rejected, the second one
\* admitted.
C17_Witness ==
  /\ pc = "func"
  /\ Len(fetched) = 2
  /\ fetched[1] # fetched[2]
  /\ ~Admitted(fetched[1])
  /\ Admitted(fetched[2])
  /\ pred_evals = fetched

\* A failed fetch has delivered triples, and pred_ was not called.
C17_WitnessFailed ==
  /\ pc = "skip"
  /\ fetched # <<>>
  /\ pred_evals = <<>>

\* C18: closed list and fringe are locals of one call. In a second call on
\* the same walker object the closed list holds only URIs attempted in that
\* call and the fringe only URIs pushed in it; when the call returns, every
\* URI pushed in it has been fetched, and observed if the fetch succeeded,
\* whether or not the previous call had closed it.
C18_WalksIndependent ==
  walk_no > 1 =>
    /\ closed_list = Range(attempted) \cup (IF pc = "parse" THEN {current_uri} ELSE {})
    /\ Range(fringe) \subseteq Range(discovered)
    /\ Range(attempted) \subseteq Range(discovered)
    /\ pc = "done" =>
         /\ Range(attempted) = Range(discovered)
         /\ visited = GoodAttempted

\* The second call has returned after visiting A and B, which the first
\* call had closed.
C18_Witness ==
  /\ walk_no = 2
  /\ pc = "done"
  /\ prev_closed = {StdA, StdB}
  /\ visited = <<StdA, StdB>>

\* The graph of a walk: its edges are the recorded references, its root the
\* URI the walk was started on. Hops(u) is the least number of edges from
\* the root to u, Unreachable if there is no path.
Successors(S) == {e[2] : e \in {x \in edges : x[1] \in S}}
Unreachable == Cardinality(StdUris) + 1
RECURSIVE HopsFrom(_, _, _, _)
HopsFrom(layer, seen, u, k) ==
  IF u \in layer THEN k
  ELSE IF layer = {} THEN Unreachable
       ELSE HopsFrom(Successors(layer) \ (seen \cup layer), seen \cup layer, u, k + 1)
Hops(u) == HopsFrom({discovered[1]}, {}, u, 0)
Reachable == {u \in StdUris : Hops(u) < Unreachable}

\* C19: the URIs are attempted in non-decreasing order of their hop distance
\* from the start URI in the graph of the admitted uri-object references of
\* the fetched documents.
C19_BreadthFirst ==
  \A i, j \in 1..Len(attempted) :
    i < j => Hops(attempted[i]) <= Hops(attempted[j])

\* D, two hops away over B and over C, was pushed twice and attempted last;
\* its document refers back to A.
C19_Witness ==
  /\ pc = "done"
  /\ attempted = <<StdA, StdB, StdC, StdD>>
  /\ edges = {<<StdA, StdB>>, <<StdA, StdC>>, <<StdB, StdD>>, <<StdC, StdD>>,
              <<StdD, StdA>>}

C21_ErrorLatches ==
  (ppc = "returned" /\ \E i \in 1..Len(log_levels) : log_levels[i] \in {"ERROR", "FATAL"})
    => presult = "false"

\* C22: whenever the walk is at the head of its loop, or has left it, the
\* closed list is exactly the set of the URIs the parser was called on in
\* this call; it never loses an element; and every URI the observer was
\* invoked with is in it.
C22_ClosedIsAttempted ==
  /\ [](pc \in {"loop", "done"} => closed_list = Range(attempted))
  /\ [](Range(visited) \subseteq closed_list)
  /\ [][closed_list \subseteq closed_list']_vars

\* At the head of the loop after three fetches, one of them failed, with a
\* URI still on the fringe.
C22_Witness ==
  /\ pc = "loop"
  /\ closed_list = {StdA, StdB, StdC}
  /\ visited = <<StdA, StdC>>
  /\ fringe # <<>>

\* C23: the walk is never left by the "bad cast" of term_cast: the for_each
\* over the admitted triples does not throw, whatever the variants of their
\* objects, since term_cast<rdf_uri> is called on an object only after
\* is_uri answered true on it.
C23_NoBadCast ==
  /\ error # "bad cast"
  /\ pc = "func" =>
       /\ ~push_for_each(fringe, func_args.range).threw
       /\ \A i \in 1..Len(func_args.range) :
            LET obj == func_args.range[i].object
            IN  /\ ~push_lambda(fringe, func_args.range[i]).threw
                /\ ~is_uri(obj) => ~term_cast_uri(obj).ok
                /\ ~is_uri(obj) =>
                     push_lambda(fringe, func_args.range[i]).fringe = fringe

\* The observer is invoked with a triple whose object is a literal and one
\* whose object is a blank node.
C23_Witness ==
  /\ pc = "func"
  /\ Len(func_args.range) = 2
  /\ is_literal(func_args.range[1].object)
  /\ is_blank(func_args.range[2].object)

====
